---------------------------- MODULE Spec2Model ----------------------------
(***************************************************************************)
(* A model of generate.py, the Guess Who card generator: main(), the       *)
(* config loader, the directory scan, generate_pdf's page loop, draw_card  *)
(* and get_grid_origin.                                                    *)
(*                                                                         *)
(* Three specifications share the module:                                  *)
(*   Spec      a whole run of main(): load_config, collect_images, the     *)
(*             max_cards cut and generate_pdf, one action per emitted      *)
(*             page;                                                       *)
(*   SpecGrid  get_grid_origin applied to bounded configurations;          *)
(*   SpecCard  draw_card applied to bounded cards, images and names.       *)
(*                                                                         *)
(* Python floats are modelled as binary floating-point numbers with        *)
(* MantBits bits of precision, every arithmetic operation rounded to       *)
(* nearest, ties to even (IEEE 754), with an unbounded exponent.  The      *)
(* program runs on binary64 (53 bits); the rounding rule is the same, the  *)
(* precision is smaller so that the values fit TLC's 32-bit integers.      *)
(***************************************************************************)
EXTENDS Integers, Sequences, FiniteSets, TLC

VARIABLES
    pc,        \* where main() is: "main", "collect", "cut", "generate", "front", "back", "save", "done", "exit"
    env,       \* the command line and the file system the run starts from
    cfg,       \* the merged configuration (load_config's result)
    images,    \* the card items handed on by collect_images / the max_cards cut
    pages,     \* generate_pdf's batches of card items
    geo,       \* generate_pdf's cell_w, cell_h, pad and (origin_x, origin_y)
    set_idx,   \* generate_pdf's set loop counter
    page_no,   \* index into pages of the batch being emitted (1-based)
    first_page,\* generate_pdf's first_page flag
    cur,       \* the canvas' current page: the cards drawn on it so far
    doc,       \* the canvas' finished pages, in order
    out,       \* what the run reported: exit code, announced total, warnings, saved file
    call,      \* SpecGrid / SpecCard: the arguments of the function called
    ret        \* SpecGrid / SpecCard: <<>> before the call, <<result>> after it

vars == <<pc, env, cfg, images, pages, geo, set_idx, page_no, first_page, cur, doc, out, call, ret>>

mainVars == <<pc, env, cfg, images, pages, geo, set_idx, page_no, first_page, cur, doc, out>>

-----------------------------------------------------------------------------
(* Bounds of the model. *)

\* precision of the modelled floating-point format, in bits
MantBits == 10
\* largest columns / rows value a user configuration sets in Spec
MaxCols == 3
MaxRows == 2
\* largest game.sets value in Spec
MaxSets == 2
\* largest number of matching image files in the scanned directory in Spec
MaxImages == 5
\* longest display name in SpecCard
MaxNameLen == 3
\* largest pixel width / height of an image in SpecCard
MaxPix == 7
\* largest scalar value in a mapping in SpecMerge
MaxVal == 2

-----------------------------------------------------------------------------
(* Exact rationals <<n, d>>, d > 0, in lowest terms. *)

Abs(i) == IF i < 0 THEN -i ELSE i

RECURSIVE GCD(_, _)
GCD(a, b) == IF b = 0 THEN a ELSE GCD(b, a % b)

Reduce(n, d, g) == <<n \div g, d \div g>>
Rat(n, d) == IF d < 0 THEN Reduce(-n, -d, GCD(Abs(n), Abs(d)))
             ELSE Reduce(n, d, GCD(Abs(n), Abs(d)))

RInt(i) == <<i, 1>>
RAdd(a, b) == Rat(a[1] * b[2] + b[1] * a[2], a[2] * b[2])
RSub(a, b) == Rat(a[1] * b[2] - b[1] * a[2], a[2] * b[2])
RMul(a, b) == Rat(a[1] * b[1], a[2] * b[2])
RDiv(a, b) == Rat(a[1] * b[2], a[2] * b[1])
RLe(a, b) == a[1] * b[2] <= b[1] * a[2]
RLt(a, b) == a[1] * b[2] < b[1] * a[2]
RAbs(a) == <<Abs(a[1]), a[2]>>
RMax(a, b) == IF RLe(a, b) THEN b ELSE a

RECURSIVE Pow2(_)
Pow2(k) == IF k = 0 THEN 1 ELSE 2 * Pow2(k - 1)

-----------------------------------------------------------------------------
(* Python float arithmetic: each operation is the exact result rounded to  *)
(* MantBits significant bits, to nearest, ties to even.                    *)

\* a MantBits-bit significand m satisfies MantLow <= m < MantHigh
MantLow == Pow2(MantBits - 1)
MantHigh == Pow2(MantBits)

\* quotient m with remainder r of a division by d, rounded to nearest, a tie
\* to the even neighbour
NearestEven(m, r, d) == IF 2 * r > d \/ (2 * r = d /\ m % 2 = 1) THEN m + 1 ELSE m

\* n/d > 0 scaled by powers of two until its integer part has MantBits bits;
\* un and ud are the factors applied so far to n and to d.
RECURSIVE RoundScaled(_, _, _, _)
RoundScaled(n, d, un, ud) ==
    IF n < MantLow * d THEN RoundScaled(2 * n, d, 2 * un, ud)
    ELSE IF n >= MantHigh * d THEN RoundScaled(n, 2 * d, un, 2 * ud)
    ELSE Rat(NearestEven(n \div d, n % d, d) * ud, un)

\* The operations are functions of their operands, so that an operand is
\* evaluated once however often the result is used.
Q == Int \X Int

RNeg(a) == <<-a[1], a[2]>>

RoundF[q \in Q] ==
    IF q[1] = 0 THEN q
    ELSE IF q[1] < 0 THEN RNeg(RoundScaled(-q[1], q[2], 1, 1))
    ELSE RoundScaled(q[1], q[2], 1, 1)

FAddF[a \in Q, b \in Q] == RoundF[RAdd(a, b)]
FSubF[a \in Q, b \in Q] == RoundF[RSub(a, b)]
FMulF[a \in Q, b \in Q] == RoundF[RMul(a, b)]
FDivF[a \in Q, b \in Q] == RoundF[RDiv(a, b)]

Round(q) == RoundF[q]
FAdd(a, b) == FAddF[a, b]
FSub(a, b) == FSubF[a, b]
FMul(a, b) == FMulF[a, b]
FDiv(a, b) == FDivF[a, b]
\* a decimal literal n/d of a YAML file or of the source, read as a float
Float(n, d) == Round(Rat(n, d))

\* reportlab.lib.units.inch
inch == Float(72, 1)


-----------------------------------------------------------------------------
(* Configuration. *)

\* DEFAULT_CONFIG, the sections and keys the modelled code reads
DEFAULT_CONFIG ==
    [page       |-> [width |-> Float(85, 10), height |-> Float(11, 1)],
     card       |-> [width |-> Float(125, 100), height |-> Float(1375, 1000),
                     columns |-> 5, rows |-> 5, padding |-> Float(125, 1000)],
     image      |-> [padding |-> Float(0, 1)],
     name_label |-> [font |-> "Helvetica-Bold", font_size |-> 12,
                     bottom_padding |-> Float(15, 100)],
     border     |-> [width |-> Float(0, 1)],
     crop_marks |-> [enabled |-> TRUE, length |-> Float(15, 100), offset |-> Float(4, 100)],
     game       |-> [max_cards |-> 24, sets |-> 2],
     duplex     |-> [back_offset_x |-> Float(0, 1), back_offset_y |-> Float(0, 1)],
     card_back  |-> [set_colors |-> <<"blue", "red">>, frame_margin |-> Float(7, 100)]]

\* deep_merge(base, override) on mappings shaped like DEFAULT_CONFIG: every
\* top-level value a section (a mapping), its values scalars.  A section on
\* both sides is merged key by key, override winning; anything else of
\* override replaces or extends base.
deep_merge(base, override) ==
    [k \in DOMAIN base \cup DOMAIN override |->
        IF k \notin DOMAIN override THEN base[k]
        ELSE IF k \notin DOMAIN base THEN override[k]
        ELSE [j \in DOMAIN base[k] \cup DOMAIN override[k] |->
                IF j \in DOMAIN override[k] THEN override[k][j] ELSE base[k][j]]]

\* load_config(config_path): the configuration, or exit code 1 when the
\* named file does not exist.  config is "none" (no --config), "missing"
\* or "file"; user is the mapping the YAML file holds.
load_config(config, user) ==
    IF config = "none" THEN [exit |-> 0, cfg |-> DEFAULT_CONFIG]
    ELSE IF config = "missing" THEN [exit |-> 1, cfg |-> DEFAULT_CONFIG]
    ELSE [exit |-> 0, cfg |-> deep_merge(DEFAULT_CONFIG, user)]

-----------------------------------------------------------------------------
(* deep_merge on Python objects.  A dict is an object on a heap, a sequence *)
(* of dicts indexed by address; a value under a key is a scalar Val(v) or   *)
(* a reference Ref(a) to another dict, so that copying and assigning share  *)
(* or change objects as in Python.                                          *)

Val(v) == [t |-> "val", v |-> v]
Ref(a) == [t |-> "ref", a |-> a]
EmptyDict == [k \in {} |-> Val(0)]

\* the keys a dict may hold, in the order dicts are filled and iterated
KeyOrder == <<"card", "game">>
KeysOf(d) == SelectSeq(KeyOrder, LAMBDA k : k \in DOMAIN d)

\* d[key] = value
SetItem(d, key, value) == (key :> value) @@ d

RECURSIVE deep_merge_heap(_, _, _)
RECURSIVE deep_merge_items(_, _, _, _)

\* "for key, value in override.items()" from the keys ks on, merged the
\* address of the dict being filled: the heap and the address returned
deep_merge_items(h, merged, override, ks) ==
    IF ks = <<>> THEN [heap |-> h, ref |-> merged]
    ELSE IF /\ Head(ks) \in DOMAIN h[merged]
            /\ h[merged][Head(ks)].t = "ref"
            /\ h[override][Head(ks)].t = "ref"
    THEN deep_merge_items(
             [deep_merge_heap(h, h[merged][Head(ks)].a, h[override][Head(ks)].a).heap
                EXCEPT ![merged] = SetItem(@, Head(ks),
                    Ref(deep_merge_heap(h, h[merged][Head(ks)].a, h[override][Head(ks)].a).ref))],
             merged, override, Tail(ks))
    ELSE deep_merge_items([h EXCEPT ![merged] = SetItem(@, Head(ks), h[override][Head(ks)])],
                          merged, override, Tail(ks))

\* "merged = base" in place of "merged = base.copy()"
deep_merge_heap_Mutant(h, base, override) ==
    deep_merge_items(h, base, override, KeysOf(h[override]))

\* deep_merge(base, override) on the heap h: merged = base.copy() is a new
\* dict holding base's values, then the loop
deep_merge_heap(h, base, override) ==
    deep_merge_items(Append(h, h[base]), Len(h) + 1, override, KeysOf(h[override]))

-----------------------------------------------------------------------------
(* get_grid_origin *)

card_w(c) == FMul(c.card.width, inch)
card_h(c) == FMul(c.card.height, inch)
pad(c) == FMul(c.card.padding, inch)
page_w(c) == FMul(c.page.width, inch)
page_h(c) == FMul(c.page.height, inch)
cell_w(c) == FAdd(card_w(c), FMul(RInt(2), pad(c)))
cell_h(c) == FAdd(card_h(c), FMul(RInt(2), pad(c)))
grid_width(c) == FMul(RInt(c.card.columns), cell_w(c))
grid_height(c) == FMul(RInt(c.card.rows), cell_h(c))

\* origin_y with the sign of the half margin flipped
get_grid_origin_Mutant(c) ==
    <<FDiv(FSub(page_w(c), grid_width(c)), RInt(2)),
      FAdd(page_h(c), FDiv(FSub(page_h(c), grid_height(c)), RInt(2)))>>

get_grid_origin(c) ==
    LET origin_x == FDiv(FSub(page_w(c), grid_width(c)), RInt(2))
        origin_y == FSub(page_h(c), FDiv(FSub(page_h(c), grid_height(c)), RInt(2)))
    IN  <<origin_x, origin_y>>

-----------------------------------------------------------------------------
(* The canvas: a drawing call is a record, a page the sequence of calls.   *)

Op0(name) == [op |-> name]
SetColor(name, color) == [op |-> name, color |-> color]
Rect(x, y, w, h, fill, stroke) ==
    [op |-> "rect", x |-> x, y |-> y, w |-> w, h |-> h, fill |-> fill, stroke |-> stroke]
Line(x1, y1, x2, y2) == [op |-> "line", x1 |-> x1, y1 |-> y1, x2 |-> x2, y2 |-> y2]
Text(name, x, y, text) == [op |-> name, x |-> x, y |-> y, text |-> text]

\* characters of display names and their advance widths in 1/1000 em
\* (Helvetica-Bold: I 278, a 556, W 944)
Chars == {"I", "a", "W"}
GlyphWidth(ch) == CASE ch = "I" -> 278 [] ch = "a" -> 556 [] ch = "W" -> 944 [] OTHER -> 556

RECURSIVE SumWidths(_)
SumWidths(text) ==
    IF text = <<>> THEN 0 ELSE GlyphWidth(Head(text)) + SumWidths(Tail(text))

\* c.stringWidth(text, font, size): the glyph widths summed, * 0.001 * size
stringWidth(text, size) ==
    FMul(FMul(Round(RInt(SumWidths(text))), Float(1, 1000)), Round(RInt(size)))

\* text[:-1]
DropLast(text) == SubSeq(text, 1, Len(text) - 1)

-----------------------------------------------------------------------------
(* draw_crop_marks *)

CornerMarks(cx, cy, hdx, vdy, offset, length) ==
    << Line(FAdd(cx, FMul(RInt(hdx), offset)), cy,
            FAdd(cx, FMul(RInt(hdx), FAdd(offset, length))), cy),
       Line(cx, FAdd(cy, FMul(RInt(vdy), offset)),
            cx, FAdd(cy, FMul(RInt(vdy), FAdd(offset, length)))) >>

draw_crop_marks(x, y, w, h, c) ==
    IF ~c.crop_marks.enabled THEN <<>>
    ELSE LET offset == FMul(c.crop_marks.offset, inch)
             length == FMul(c.crop_marks.length, inch)
         IN  << SetColor("setStrokeColor", "crop_marks.color"),
                [op |-> "setLineWidth", width |-> "crop_marks.width"] >>
             \o CornerMarks(x, FAdd(y, h), -1, 1, offset, length)
             \o CornerMarks(FAdd(x, w), FAdd(y, h), 1, 1, offset, length)
             \o CornerMarks(x, y, -1, -1, offset, length)
             \o CornerMarks(FAdd(x, w), y, 1, -1, offset, length)

-----------------------------------------------------------------------------
(* draw_card *)

ImageErrorText == <<"I", "m", "a", "g", "e", " ", "E", "r", "r", "o", "r">>

\* max replaced by min: the image is fitted inside the card, not over it
cover_scale_Mutant(img_max_w, img_max_h, pil_w, pil_h) ==
    LET a == FDiv(img_max_w, Round(RInt(pil_w)))
        b == FDiv(img_max_h, Round(RInt(pil_h)))
    IN  IF RLe(a, b) THEN a ELSE b

\* scale = max(img_max_w / pil_w, img_max_h / pil_h)
cover_scale(img_max_w, img_max_h, pil_w, pil_h) ==
    RMax(FDiv(img_max_w, Round(RInt(pil_w))), FDiv(img_max_h, Round(RInt(pil_h))))

\* the try block: the image scaled to cover the card and clipped to it, or,
\* when Image.open / enhance_image raises, the except block's placeholder
draw_image(x, y, img, c) ==
    LET img_max_w == card_w(c)
        img_max_h == card_h(c)
    IN  IF img.ok
        THEN LET scale == cover_scale(img_max_w, img_max_h, img.w, img.h)
                 draw_w == FMul(Round(RInt(img.w)), scale)
                 draw_h == FMul(Round(RInt(img.h)), scale)
                 draw_x == FAdd(x, FDiv(FSub(img_max_w, draw_w), RInt(2)))
                 draw_y == FAdd(y, FDiv(FSub(img_max_h, draw_h), RInt(2)))
             IN  [ops |-> << Op0("saveState"),
                             [op |-> "clipPath", x |-> x, y |-> y, w |-> img_max_w, h |-> img_max_h],
                             [op |-> "drawImage", path |-> img.path, x |-> draw_x, y |-> draw_y,
                              w |-> draw_w, h |-> draw_h],
                             Op0("restoreState") >>,
                  warnings |-> <<>>]
        ELSE [ops |-> << SetColor("setFillColor", "grey30"),
                         Rect(x, y, img_max_w, img_max_h, 1, 0),
                         SetColor("setFillColor", "white"),
                         [op |-> "setFont", font |-> "Helvetica", size |-> 6],
                         Text("drawCentredString", FAdd(x, FDiv(img_max_w, RInt(2))),
                              FAdd(y, FDiv(img_max_h, RInt(2))), ImageErrorText) >>,
              warnings |-> <<img.path>>]

\* the while loop that shortens display_name
RECURSIVE truncate_label(_, _, _)
truncate_label(display_name, max_text_w, size) ==
    IF RLt(max_text_w, stringWidth(display_name, size))
    THEN LET shorter == DropLast(display_name)
         IN  IF Len(shorter) <= 1 THEN shorter
             ELSE truncate_label(shorter, max_text_w, size)
    ELSE display_name

max_text_w(c) == FSub(card_w(c), FMul(RInt(2), FMul(c.image.padding, inch)))

draw_label(x, y, name, c) ==
    LET label_size == c.name_label.font_size
        label_font == c.name_label.font
        display_name == truncate_label(name, max_text_w(c), label_size)
        label_y == FAdd(FAdd(y, FMul(c.name_label.bottom_padding, inch)),
                        FDiv(Round(RInt(label_size)), RInt(3)))
        mid_x == FAdd(x, FDiv(card_w(c), RInt(2)))
        label_x == FSub(mid_x, FDiv(stringWidth(display_name, label_size), RInt(2)))
    IN  << [op |-> "setFont", font |-> label_font, size |-> label_size],
           Op0("saveState"),
           SetColor("setStrokeColor", "name_label.outline_color"),
           [op |-> "setLineWidth", width |-> "name_label.outline_width"],
           Text("drawText", label_x, label_y, display_name),
           Op0("restoreState"),
           SetColor("setFillColor", "name_label.color"),
           Text("drawCentredString", mid_x, label_y, display_name) >>

draw_border(x, y, c) ==
    << SetColor("setStrokeColor", "border.color"),
       [op |-> "setLineWidth", width |-> c.border.width],
       Rect(x, y, card_w(c), card_h(c), 0, 1) >>

\* the except block ends the function: no label, border or crop marks
draw_card_Mutant(x, y, img, name, c) ==
    LET image == draw_image(x, y, img, c)
        head == << SetColor("setFillColor", "card.background_color"),
                   Rect(x, y, card_w(c), card_h(c), 1, 0) >> \o image.ops
    IN  [ops |-> IF img.ok
                 THEN head \o draw_label(x, y, name, c) \o draw_border(x, y, c)
                      \o draw_crop_marks(x, y, card_w(c), card_h(c), c)
                 ELSE head,
         warnings |-> image.warnings]

\* draw_card(c, x, y, image_path, name, cfg): what it draws and what it
\* prints; img is the file behind image_path
draw_card(x, y, img, name, c) ==
    LET image == draw_image(x, y, img, c)
    IN  [ops |-> << SetColor("setFillColor", "card.background_color"),
                    Rect(x, y, card_w(c), card_h(c), 1, 0) >>
                 \o image.ops
                 \o draw_label(x, y, name, c)
                 \o draw_border(x, y, c)
                 \o draw_crop_marks(x, y, card_w(c), card_h(c), c),
         warnings |-> image.warnings]

-----------------------------------------------------------------------------
(* The state main() has not touched yet, and the idle values of the        *)
(* variables a specification does not use.                                 *)

NoCall == [fn |-> "none"]
NoGeo == [cell_w |-> RInt(0), cell_h |-> RInt(0), pad |-> RInt(0),
          origin |-> <<RInt(0), RInt(0)>>]
NoOut == [exit |-> -1, announced |-> -1, warnings |-> <<>>, saved |-> FALSE]

IdleMain ==
    /\ pc = "idle"
    /\ env = [mode |-> "none", config |-> "none", user |-> <<>>, dir |-> "none",
              files |-> 0, listing |-> <<>>, corrupt |-> {}]
    /\ cfg = DEFAULT_CONFIG
    /\ images = <<>>
    /\ pages = <<>>
    /\ geo = NoGeo
    /\ set_idx = 0
    /\ page_no = 0
    /\ first_page = TRUE
    /\ cur = <<>>
    /\ doc = <<>>
    /\ out = NoOut

-----------------------------------------------------------------------------
(* SpecGrid: get_grid_origin on bounded configurations. *)

GridConfigs ==
    { [DEFAULT_CONFIG EXCEPT !.page = [width |-> pw, height |-> ph],
                             !.card = [width |-> cw, height |-> ch, columns |-> cols,
                                       rows |-> rows, padding |-> p]] :
        pw \in {Float(85, 10), Float(58, 10)},
        ph \in {Float(11, 1), Float(827, 100)},
        cw \in {Float(125, 100), Float(7, 10)},
        ch \in {Float(1375, 1000)},
        p \in {Float(0, 1), Float(125, 1000), Float(1, 10)},
        cols \in 1..MaxCols,
        rows \in 1..MaxRows }

InitGrid ==
    /\ IdleMain
    /\ ret = <<>>
    /\ \E c \in GridConfigs : call = [fn |-> "get_grid_origin", cfg |-> c]

CallGridOrigin ==
    /\ call.fn = "get_grid_origin"
    /\ ret = <<>>
    /\ ret' = <<get_grid_origin(call.cfg)>>
    /\ UNCHANGED <<mainVars, call>>

NextGrid == CallGridOrigin

SpecGrid == InitGrid /\ [][NextGrid]_vars

GridDone == call.fn = "get_grid_origin" /\ ret # <<>>

\* the margins a reader of the page measures from the returned origin
LeftMargin == ret[1][1]
RightMargin == FSub(FSub(page_w(call.cfg), ret[1][1]), grid_width(call.cfg))
TopMargin == FSub(page_h(call.cfg), ret[1][2])
BottomMargin == FSub(ret[1][2], grid_height(call.cfg))

\* |a - b| <= 4 * 2^-MantBits * scale: a and b agree to floating-point rounding
Within(a, b, scale) ==
    RLe(RMul(RInt(MantHigh), RAbs(RSub(a, b))), RMul(RInt(4), RAbs(scale)))

\* C8 (as stated): the returned origin centers the grid exactly: left margin
\* = right margin and top margin = bottom margin.
C8_Exact ==
    GridDone => LeftMargin = RightMargin /\ TopMargin = BottomMargin

\* C8 (amended): the origin is ((page_w - grid_width)/2 rounded, and the
\* margins on opposite sides agree to within floating-point rounding: they
\* differ by at most 4 * 2^-p of the larger of page and grid extent.
C8_Centered ==
    GridDone =>
        /\ LeftMargin = FDiv(FSub(page_w(call.cfg), grid_width(call.cfg)), RInt(2))
        /\ Within(LeftMargin, RightMargin, RMax(page_w(call.cfg), grid_width(call.cfg)))
        /\ Within(TopMargin, BottomMargin, RMax(page_h(call.cfg), grid_height(call.cfg)))

\* C8 witness: the origin of a grid narrower than its page has been computed
\* and rounding has made the two horizontal margins differ.
C8_Witness ==
    /\ GridDone
    /\ RLt(grid_width(call.cfg), page_w(call.cfg))
    /\ LeftMargin # RightMargin

-----------------------------------------------------------------------------
(* SpecCard: draw_card on bounded cards, images and names. *)

Names == UNION { [1..n -> Chars] : n \in 0..MaxNameLen }

CardConfigs(widths, heights, pads, borders, crops) ==
    { [DEFAULT_CONFIG EXCEPT !.card.width = cw, !.card.height = ch, !.image.padding = ip,
                             !.border.width = bw, !.crop_marks.enabled = cm] :
        cw \in widths, ch \in heights, ip \in pads, bw \in borders, cm \in crops }

\* calls that vary the display name and the room it has
NameCalls ==
    { [fn |-> "draw_card", x |-> Float(45, 1), y |-> Float(567, 1),
       img |-> [path |-> 1, ok |-> TRUE, w |-> 3, h |-> 4], name |-> n, cfg |-> c] :
        n \in Names,
        c \in CardConfigs({Float(1, 10), Float(3, 10), Float(125, 100)}, {Float(1375, 1000)},
                          {Float(0, 1), Float(5, 100)}, {Float(0, 1), Float(15, 10)}, {TRUE}) }

\* calls that vary the image, readable or not, and the card it must cover
ImageCalls ==
    { [fn |-> "draw_card", x |-> x, y |-> Float(567, 1), img |-> i, name |-> <<"a">>, cfg |-> c] :
        x \in {Float(0, 1), Float(45, 1)},
        i \in {[path |-> 1, ok |-> FALSE, w |-> 0, h |-> 0]}
              \cup {[path |-> 1, ok |-> TRUE, w |-> w, h |-> h] : w \in 1..MaxPix, h \in 1..MaxPix},
        c \in CardConfigs({Float(125, 100), Float(7, 10)}, {Float(1375, 1000), Float(17, 10)},
                          {Float(0, 1)}, {Float(0, 1), Float(15, 10)}, BOOLEAN) }

InitCard ==
    /\ IdleMain
    /\ ret = <<>>
    /\ call \in NameCalls \cup ImageCalls

CallDrawCard ==
    /\ call.fn = "draw_card"
    /\ ret = <<>>
    /\ ret' = <<draw_card(call.x, call.y, call.img, call.name, call.cfg)>>
    /\ UNCHANGED <<mainVars, call>>

NextCard == CallDrawCard

SpecCard == InitCard /\ [][NextCard]_vars

CardDone == call.fn = "draw_card" /\ ret # <<>>

OpsNamed(ops, name) == SelectSeq(ops, LAMBDA o : o.op = name)
StrokedRects(ops) == SelectSeq(OpsNamed(ops, "rect"), LAMBDA o : o.stroke = 1)
\* the label as drawn: the text of the fill pass, the last drawCentredString
LabelOf(ops) == LET ds == OpsNamed(ops, "drawCentredString") IN ds[Len(ds)].text
Prefix(p, t) == Len(p) <= Len(t) /\ p = SubSeq(t, 1, Len(p))

\* a <= b + 4 * 2^-MantBits * scale: a <= b up to floating-point rounding
AtMost(a, b, scale) ==
    RLe(RMul(RInt(MantHigh), RSub(a, b)), RMul(RInt(4), RAbs(scale)))

\* C7 (as stated): the drawn label is a prefix of the name, no wider than the
\* name; truncation stopped exactly at the first prefix, going down from the
\* full name, that fits or has one character; a non-empty name leaves a label
\* of at least one character; truncating the label again changes nothing.
C7_Truncation ==
    CardDone =>
        LET name == call.name
            size == call.cfg.name_label.font_size
            room == max_text_w(call.cfg)
            label == LabelOf(ret[1].ops)
            Stop(p) == RLe(stringWidth(p, size), room) \/ Len(p) = 1
        IN  /\ Prefix(label, name)
            /\ RLe(stringWidth(label, size), stringWidth(name, size))
            /\ name # <<>> => Len(label) >= 1
            /\ name # <<>> => Stop(label)
            /\ \A k \in (Len(label) + 1)..Len(name) : ~Stop(SubSeq(name, 1, k))
            /\ truncate_label(label, room, size) = label

\* C10 (as stated): with border width 0 no stroked rectangle is issued for
\* the card; with a width > 0 exactly one is, in the configured color and
\* width.
C10_Border ==
    CardDone =>
        LET strokes == StrokedRects(ret[1].ops)
        IN  IF call.cfg.border.width = Float(0, 1)
            THEN strokes = <<>>
            ELSE /\ Len(strokes) = 1
                 /\ \E i \in 3..Len(ret[1].ops) :
                        /\ ret[1].ops[i] = strokes[1]
                        /\ ret[1].ops[i] = Rect(call.x, call.y, card_w(call.cfg), card_h(call.cfg), 0, 1)
                        /\ ret[1].ops[i - 1] = [op |-> "setLineWidth", width |-> call.cfg.border.width]
                        /\ ret[1].ops[i - 2] = SetColor("setStrokeColor", "border.color")

Drawn == OpsNamed(ret[1].ops, "drawImage")[1]
ImageDrawn == CardDone /\ call.img.ok /\ OpsNamed(ret[1].ops, "drawImage") # <<>>

\* C9 (as stated): draw_w >= card width and draw_h >= card height, with
\* equality in one axis, and the drawn rectangle contains the card rectangle.
C9_Exact ==
    (CardDone /\ call.img.ok) =>
        /\ ImageDrawn
        /\ RLe(card_w(call.cfg), Drawn.w)
        /\ RLe(card_h(call.cfg), Drawn.h)
        /\ Drawn.w = card_w(call.cfg) \/ Drawn.h = card_h(call.cfg)
        /\ RLe(Drawn.x, call.x)
        /\ RLe(Drawn.y, call.y)
        /\ RLe(RAdd(call.x, card_w(call.cfg)), RAdd(Drawn.x, Drawn.w))
        /\ RLe(RAdd(call.y, card_h(call.cfg)), RAdd(Drawn.y, Drawn.h))

\* C9 (amended): the same up to floating-point rounding: draw_w and draw_h
\* are at least the card's width and height, one of them equal to it, and
\* the drawn rectangle contains the card rectangle, each to within
\* 4 * 2^-p of the magnitudes involved; the image is drawn once, between
\* saveState / clipPath(card rectangle) and restoreState.
C9_Cover ==
    (CardDone /\ call.img.ok) =>
        LET cw == card_w(call.cfg)
            ch == card_h(call.cfg)
            sx == RAdd(RAbs(call.x), RAdd(cw, Drawn.w))
            sy == RAdd(RAbs(call.y), RAdd(ch, Drawn.h))
        IN  /\ ImageDrawn
            /\ Len(OpsNamed(ret[1].ops, "drawImage")) = 1
            /\ AtMost(cw, Drawn.w, cw)
            /\ AtMost(ch, Drawn.h, ch)
            /\ Within(Drawn.w, cw, cw) \/ Within(Drawn.h, ch, ch)
            /\ AtMost(Drawn.x, call.x, sx)
            /\ AtMost(Drawn.y, call.y, sy)
            /\ AtMost(RAdd(call.x, cw), RAdd(Drawn.x, Drawn.w), sx)
            /\ AtMost(RAdd(call.y, ch), RAdd(Drawn.y, Drawn.h), sy)
            /\ \E i \in 3..Len(ret[1].ops) - 1 :
                   /\ ret[1].ops[i] = Drawn
                   /\ ret[1].ops[i - 1] = [op |-> "clipPath", x |-> call.x, y |-> call.y, w |-> cw, h |-> ch]
                   /\ ret[1].ops[i - 2] = Op0("saveState")
                   /\ ret[1].ops[i + 1] = Op0("restoreState")

\* C9 witness: a readable image has been drawn over a card it overflows in
\* width, and rounding has left its drawn height just under the card's.
C9_Witness ==
    /\ ImageDrawn
    /\ RLt(card_w(call.cfg), Drawn.w)
    /\ RLt(Drawn.h, card_h(call.cfg))

-----------------------------------------------------------------------------
(* collect_images and the max_cards cut of main() *)

\* the display name collect_images derives from the file name of image i
FileName(i) == [k \in 1..(((i - 1) % MaxNameLen) + 1) |-> IF k = 1 THEN "W" ELSE "a"]

\* the file behind a path, as Image.open finds it
FileOf(path, corrupt) == [path |-> path, ok |-> path \notin corrupt, w |-> 3, h |-> 4]

\* the scan without the "no image files found" exit
collect_images_Mutant(dir, listing) ==
    IF dir # "dir" THEN [exit |-> 1, images |-> <<>>]
    ELSE LET found == SelectSeq(listing, LAMBDA f : f.image)
         IN  [exit |-> 0,
              images |-> [i \in 1..Len(found) |->
                             [path |-> found[i].path, name |-> FileName(found[i].path)]]]

\* collect_images(image_dir, cfg): listing is sorted(image_dir.iterdir()),
\* f.image tells whether f is a file with an allowed extension
collect_images(dir, listing) ==
    IF dir # "dir" THEN [exit |-> 1, images |-> <<>>]
    ELSE LET found == SelectSeq(listing, LAMBDA f : f.image)
             imgs == [i \in 1..Len(found) |->
                         [path |-> found[i].path, name |-> FileName(found[i].path)]]
         IN  IF imgs = <<>> THEN [exit |-> 1, images |-> <<>>]
             ELSE [exit |-> 0, images |-> imgs]

\* the end of the slice s[:stop] of a list of length len: a negative stop
\* counts from the end of the list
slice_stop(len, stop) ==
    IF stop < 0 THEN (IF len + stop < 0 THEN 0 ELSE len + stop)
    ELSE IF stop > len THEN len ELSE stop

\* the list handed on whatever max_cards is
cut_to_max_cards_Mutant(imgs, max_cards) == imgs

\* images[:max_cards] when there are more than max_cards
cut_to_max_cards(imgs, max_cards) ==
    IF Len(imgs) > max_cards THEN SubSeq(imgs, 1, slice_stop(Len(imgs), max_cards)) ELSE imgs

-----------------------------------------------------------------------------
(* generate_pdf *)

Min(a, b) == IF a <= b THEN a ELSE b

\* range(0, n, step)
RangeStarts(n, step) == {i \in 0..(n - 1) : i % step = 0}

\* range(0, len(images) + 1, cards_per_page): a trailing empty batch when
\* the list fills its last page
split_pages_Mutant(imgs, cards_per_page) ==
    LET starts == RangeStarts(Len(imgs) + 1, cards_per_page)
    IN  [b \in 1..Cardinality(starts) |->
            SubSeq(imgs, (b - 1) * cards_per_page + 1, Min(b * cards_per_page, Len(imgs)))]

\* pages = [images[i:i + cards_per_page] for i in range(0, len(images), cards_per_page)]
split_pages(imgs, cards_per_page) ==
    LET starts == RangeStarts(Len(imgs), cards_per_page)
    IN  [b \in 1..Cardinality(starts) |->
            SubSeq(imgs, (b - 1) * cards_per_page + 1, Min(b * cards_per_page, Len(imgs)))]

\* the back pages forgotten in the announced total
total_pdf_pages_Mutant(num_pages, num_sets) == num_pages * num_sets

total_pdf_pages(num_pages, num_sets) == num_pages * num_sets * 2

\* the front page never starts a new page
show_page_before_front_Mutant(first) == FALSE

\* "if not first_page: c.showPage()"
show_page_before_front(first) == ~first

\* the column taken with // in place of %
front_col_Mutant(page_idx, cols) == page_idx \div cols

front_col(page_idx, cols) == page_idx % cols
card_row(page_idx, cols) == page_idx \div cols

\* the back drawn in the front's own column
back_col_Mutant(page_idx, cols) == page_idx % cols

back_col(page_idx, cols) == cols - 1 - (page_idx % cols)

\* the locals generate_pdf computes once, before the loops
grid_locals(c) ==
    [cell_w |-> cell_w(c), cell_h |-> cell_h(c), pad |-> pad(c), origin |-> get_grid_origin(c)]

\* card_x = origin_x + col * cell_w + pad; card_y = origin_y - (row + 1) * cell_h + pad
card_x(col, g) == FAdd(FAdd(g.origin[1], FMul(RInt(col), g.cell_w)), g.pad)
card_y(row, g) == FAdd(FSub(g.origin[2], FMul(RInt(row + 1), g.cell_h)), g.pad)

\* draw_card_back; the fifteen rotated question marks are one "scatter" call
draw_card_back(x, y, bg_color, c) ==
    LET frame_margin == FMul(c.card_back.frame_margin, inch)
    IN  << SetColor("setFillColor", bg_color),
           Rect(x, y, card_w(c), card_h(c), 1, 0),
           Op0("saveState"),
           [op |-> "clipPath", x |-> x, y |-> y, w |-> card_w(c), h |-> card_h(c)],
           SetColor("setFillColor", "card_back.qm_color"),
           [op |-> "scatter", text |-> <<"?">>, x |-> x, y |-> y],
           Op0("restoreState"),
           SetColor("setStrokeColor", "card_back.frame_color"),
           [op |-> "setLineWidth", width |-> "card_back.frame_width"],
           Rect(FAdd(x, frame_margin), FAdd(y, frame_margin),
                FSub(card_w(c), FMul(RInt(2), frame_margin)),
                FSub(card_h(c), FMul(RInt(2), frame_margin)), 0, 1) >>
        \o draw_crop_marks(x, y, card_w(c), card_h(c), c)

\* one pass of the front loop: the card drawn at (x, y), with the loop
\* variables it was drawn under
front_card(item, set, batch, page_idx, col, row, x, y, corrupt, c) ==
    [side |-> "front", set |-> set, batch |-> batch, idx |-> page_idx,
     col |-> col, row |-> row, x |-> x, y |-> y, item |-> item,
     drawn |-> draw_card(x, y, FileOf(item.path, corrupt), item.name, c)]

\* the front loop over one batch
front_cards(page_images, set, batch, corrupt, c, g) ==
    [i \in 1..Len(page_images) |->
        front_card(page_images[i], set, batch, i - 1,
                   front_col(i - 1, c.card.columns), card_row(i - 1, c.card.columns),
                   card_x(front_col(i - 1, c.card.columns), g),
                   card_y(card_row(i - 1, c.card.columns), g), corrupt, c)]

\* one pass of the back loop
back_card(item, set, batch, page_idx, col, row, x, y, back_color, c) ==
    [side |-> "back", set |-> set, batch |-> batch, idx |-> page_idx,
     col |-> col, row |-> row, x |-> x, y |-> y, item |-> item,
     drawn |-> [ops |-> draw_card_back(x, y, back_color, c), warnings |-> <<>>]]

\* back_color = set_colors[set_idx % len(set_colors)]
back_color(set, c) == c.card_back.set_colors[(set % Len(c.card_back.set_colors)) + 1]

\* the back loop over the same batch
back_cards(page_images, set, batch, c, g) ==
    [i \in 1..Len(page_images) |->
        back_card(page_images[i], set, batch, i - 1,
                  back_col(i - 1, c.card.columns), card_row(i - 1, c.card.columns),
                  FAdd(card_x(back_col(i - 1, c.card.columns), g),
                       FMul(c.duplex.back_offset_x, inch)),
                  FAdd(card_y(card_row(i - 1, c.card.columns), g),
                       FMul(c.duplex.back_offset_y, inch)),
                  back_color(set, c), c)]

RECURSIVE Flatten(_)
Flatten(ss) == IF ss = <<>> THEN <<>> ELSE Head(ss) \o Flatten(Tail(ss))

-----------------------------------------------------------------------------
(* Spec: a run of main(). *)

\* sorted(image_dir.iterdir()) of a directory holding n image files 1..n and
\* one other entry, path 0, after the first image
Listing(n, other) ==
    LET imgs == [i \in 1..n |-> [path |-> i, image |-> TRUE]]
        notes == IF other THEN <<[path |-> 0, image |-> FALSE]>> ELSE <<>>
    IN  IF n = 0 THEN notes
        ELSE <<imgs[1]>> \o notes \o SubSeq(imgs, 2, n)

\* what a --config file may hold
UserConfigs ==
    { [card |-> [columns |-> cols, rows |-> rows],
       game |-> [sets |-> sets, max_cards |-> MaxImages - 1]] :
        cols \in 1..MaxCols, rows \in 1..MaxRows, sets \in 1..MaxSets }

\* the files that do not decode: none, or any one of them
CorruptSets(n) == {{}} \cup {{i} : i \in 1..n}

\* runs over small directories under the default or a user configuration
SmallRuns ==
    UNION { { [mode |-> "run", config |-> "none", user |-> <<>>, dir |-> "dir", files |-> n,
               listing |-> Listing(n, other), corrupt |-> bad] :
                other \in BOOLEAN, bad \in CorruptSets(n) } : n \in 0..MaxImages }
    \cup
    UNION { { [mode |-> "run", config |-> "file", user |-> u, dir |-> "dir", files |-> n,
               listing |-> Listing(n, TRUE), corrupt |-> bad] :
                u \in UserConfigs, bad \in CorruptSets(n) } : n \in 1..MaxImages }

\* runs that end in main() before the scan, or in the scan
FailingRuns ==
    { [mode |-> m, config |-> "none", user |-> <<>>, dir |-> "none", files |-> 0,
       listing |-> <<>>, corrupt |-> {}] : m \in {"generate_config", "no_image_dir"} }
    \cup
    { [mode |-> "run", config |-> cf, user |-> <<>>, dir |-> d, files |-> n,
       listing |-> Listing(n, TRUE), corrupt |-> {}] :
        cf \in {"none", "missing", "file"}, d \in {"dir", "notdir"}, n \in {0, 1} }

\* the 5 x 5 grid of the defaults, filled just short, exactly and just over
FullGridRuns ==
    LET full == DEFAULT_CONFIG.card.columns * DEFAULT_CONFIG.card.rows
    IN  { [mode |-> "run", config |-> "file",
           user |-> [game |-> [sets |-> sets, max_cards |-> full + 1]],
           dir |-> "dir", files |-> n, listing |-> Listing(n, FALSE), corrupt |-> {}] :
            sets \in 1..MaxSets, n \in {full - 1, full, full + 1, full + 2} }
        \cup
        { [mode |-> "run", config |-> "none", user |-> <<>>, dir |-> "dir", files |-> full,
           listing |-> Listing(full, FALSE), corrupt |-> {}] }

\* runs whose configuration caps the cards at k, on a 2 x 1 grid
CapRuns ==
    { [mode |-> "run", config |-> "file",
       user |-> [card |-> [columns |-> 2, rows |-> 1], game |-> [sets |-> sets, max_cards |-> k]],
       dir |-> "dir", files |-> n, listing |-> Listing(n, TRUE), corrupt |-> {}] :
        sets \in 1..MaxSets, k \in (-2)..MaxImages, n \in 1..MaxImages }

Init ==
    /\ pc = "main"
    /\ env \in SmallRuns \cup FailingRuns \cup FullGridRuns \cup CapRuns
    /\ cfg = DEFAULT_CONFIG
    /\ images = <<>>
    /\ pages = <<>>
    /\ geo = NoGeo
    /\ set_idx = 0
    /\ page_no = 0
    /\ first_page = TRUE
    /\ cur = <<>>
    /\ doc = <<>>
    /\ out = NoOut
    /\ call = NoCall
    /\ ret = <<>>

genVars == <<pages, geo, set_idx, page_no, first_page, cur, doc>>

\* main(): --generate-config writes the default file and exits 0
GenerateConfig ==
    /\ pc = "main"
    /\ env.mode = "generate_config"
    /\ pc' = "exit"
    /\ out' = [out EXCEPT !.exit = 0]
    /\ UNCHANGED <<env, cfg, images, genVars, call, ret>>

\* main(): parser.error when image_dir is missing
MissingImageDir ==
    /\ pc = "main"
    /\ env.mode = "no_image_dir"
    /\ pc' = "exit"
    /\ out' = [out EXCEPT !.exit = 2]
    /\ UNCHANGED <<env, cfg, images, genVars, call, ret>>

\* main(): cfg = load_config(args.config)
LoadConfig ==
    /\ pc = "main"
    /\ env.mode = "run"
    /\ LET r == load_config(env.config, env.user)
       IN  IF r.exit # 0
           THEN /\ pc' = "exit"
                /\ out' = [out EXCEPT !.exit = r.exit]
                /\ cfg' = cfg
           ELSE /\ pc' = "collect"
                /\ cfg' = r.cfg
                /\ out' = out
    /\ UNCHANGED <<env, images, genVars, call, ret>>

\* main(): images = collect_images(args.image_dir, cfg)
CollectImages ==
    /\ pc = "collect"
    /\ LET r == collect_images(env.dir, env.listing)
       IN  IF r.exit # 0
           THEN /\ pc' = "exit"
                /\ out' = [out EXCEPT !.exit = r.exit]
                /\ images' = images
           ELSE /\ pc' = "cut"
                /\ images' = r.images
                /\ out' = out
    /\ UNCHANGED <<env, cfg, genVars, call, ret>>

\* main(): the max_cards cut
CutToMaxCards ==
    /\ pc = "cut"
    /\ images' = cut_to_max_cards(images, cfg.game.max_cards)
    /\ pc' = "generate"
    /\ UNCHANGED <<env, cfg, genVars, out, call, ret>>

\* generate_pdf up to the set loop: the canvas, the batches, the announcement
StartPdf ==
    /\ pc = "generate"
    /\ LET ps == split_pages(images, cfg.card.columns * cfg.card.rows)
       IN  /\ pages' = ps
           /\ out' = [out EXCEPT !.announced = total_pdf_pages(Len(ps), cfg.game.sets)]
           /\ pc' = IF cfg.game.sets = 0 \/ ps = <<>> THEN "save" ELSE "front"
    /\ geo' = grid_locals(cfg)
    /\ set_idx' = 0
    /\ page_no' = 1
    /\ first_page' = TRUE
    /\ cur' = <<>>
    /\ doc' = <<>>
    /\ UNCHANGED <<env, cfg, images, call, ret>>

\* one front page: showPage unless it is the first, then the batch's cards
FrontPage ==
    /\ pc = "front"
    /\ \E cards \in {front_cards(pages[page_no], set_idx, page_no, env.corrupt, cfg, geo)} :
           /\ IF show_page_before_front(first_page)
              THEN doc' = Append(doc, cur) /\ cur' = cards
              ELSE doc' = doc /\ cur' = cur \o cards
           /\ out' = [out EXCEPT !.warnings =
                          @ \o Flatten([i \in 1..Len(cards) |-> cards[i].drawn.warnings])]
    /\ first_page' = FALSE
    /\ pc' = "back"
    /\ UNCHANGED <<env, cfg, images, pages, geo, set_idx, page_no, call, ret>>

\* the back page of the same batch: showPage, the mirrored backs, and the
\* step of the page and set loops
BackPage ==
    /\ pc = "back"
    /\ doc' = Append(doc, cur)
    /\ cur' = back_cards(pages[page_no], set_idx, page_no, cfg, geo)
    /\ IF page_no < Len(pages)
       THEN /\ page_no' = page_no + 1
            /\ set_idx' = set_idx
            /\ pc' = "front"
       ELSE IF set_idx + 1 < cfg.game.sets
       THEN /\ page_no' = 1
            /\ set_idx' = set_idx + 1
            /\ pc' = "front"
       ELSE /\ page_no' = page_no
            /\ set_idx' = set_idx
            /\ pc' = "save"
    /\ UNCHANGED <<env, cfg, images, pages, geo, first_page, out, call, ret>>

\* c.save(): the page under way is emitted if anything is on it, and the
\* file is written
Save ==
    /\ pc = "save"
    /\ doc' = IF cur # <<>> THEN Append(doc, cur) ELSE doc
    /\ cur' = <<>>
    /\ out' = [out EXCEPT !.saved = TRUE, !.exit = 0]
    /\ pc' = "done"
    /\ UNCHANGED <<env, cfg, images, pages, geo, set_idx, page_no, first_page, call, ret>>

Next ==
    \/ GenerateConfig
    \/ MissingImageDir
    \/ LoadConfig
    \/ CollectImages
    \/ CutToMaxCards
    \/ StartPdf
    \/ FrontPage
    \/ BackPage
    \/ Save

Spec == Init /\ [][Next]_vars

-----------------------------------------------------------------------------
(* Claims about a run of main(): the document generate_pdf emits. *)

\* generate_pdf has been entered and has split the list into batches
InPdf == pc \in {"front", "back", "save", "done"}

\* the pages of the document so far: the finished ones, then the one under way
AllPages == IF cur # <<>> THEN Append(doc, cur) ELSE doc

\* every card drawn so far, in drawing order
AllCards == Flatten(AllPages)

ItemsOf(p) == [i \in 1..Len(p) |-> p[i].item]
PageSide(k) == IF k % 2 = 1 THEN "front" ELSE "back"
IsFront(p) == p # <<>> /\ p[1].side = "front"

\* page p, the k-th of the document, holds cards, all of the side the
\* position k calls for and all of one set and one batch
Uniform(p, k) ==
    /\ p # <<>>
    /\ \A i \in 1..Len(p) :
           p[i].side = PageSide(k) /\ p[i].set = p[1].set /\ p[i].batch = p[1].batch

\* C1: the emitted pages are strictly front-then-back, per batch, per set:
\* every page at an even 0-based position is a front page, the page after it
\* is the back page of the same batch and set, all pages of set s come before
\* any page of set s + 1, and the finished document runs through every batch
\* of every set in that order.
C1_PageOrder ==
    InPdf =>
        /\ \A k \in 1..Len(AllPages) : Uniform(AllPages[k], k)
        /\ \A k \in 1..Len(AllPages) :
               k % 2 = 0 =>
                   /\ AllPages[k][1].set = AllPages[k - 1][1].set
                   /\ AllPages[k][1].batch = AllPages[k - 1][1].batch
                   /\ ItemsOf(AllPages[k]) = ItemsOf(AllPages[k - 1])
        /\ \A j \in 1..Len(AllPages) : \A k \in j..Len(AllPages) :
               AllPages[j][1].set <= AllPages[k][1].set
        /\ \A k \in 1..Len(AllPages) :
               /\ AllPages[k][1].set = ((k - 1) \div 2) \div Len(pages)
               /\ AllPages[k][1].batch = (((k - 1) \div 2) % Len(pages)) + 1
        /\ pc = "done" => Len(doc) = 2 * Len(pages) * cfg.game.sets

\* C1 witness: a finished document of two sets of at least two batches each.
C1_Witness ==
    /\ pc = "done"
    /\ cfg.game.sets = 2
    /\ Len(pages) >= 2
    /\ Len(doc) = 4 * Len(pages)
    /\ doc[3][1].side = "front" /\ doc[3][1].set = 0 /\ doc[3][1].batch = 2
    /\ doc[Len(doc)][1].side = "back" /\ doc[Len(doc)][1].set = 1

\* C2: for n >= 1 items, a cols x rows grid and sets >= 1 the document has
\* exactly 2 * ceil(n / (cols * rows)) * sets pages, the total announced
\* (len(pages) * num_sets * 2); 25 images on a 5 x 5 grid give 2 pages with
\* one set and 4 pages with two.
C2_PageCount ==
    LET n == Len(images)
        cards_per_page == cfg.card.columns * cfg.card.rows
    IN  /\ InPdf => /\ out.announced = 2 * ((n + cards_per_page - 1) \div cards_per_page) * cfg.game.sets
                    /\ out.announced = Len(pages) * cfg.game.sets * 2
        /\ pc = "done" =>
               /\ Len(doc) = 2 * ((n + cards_per_page - 1) \div cards_per_page) * cfg.game.sets
               /\ Len(doc) = out.announced
               /\ (n = 25 /\ cfg.card.columns = 5 /\ cfg.card.rows = 5 /\ cfg.game.sets = 1)
                      => Len(doc) = 2
               /\ (n = 25 /\ cfg.card.columns = 5 /\ cfg.card.rows = 5 /\ cfg.game.sets = 2)
                      => Len(doc) = 4

\* C2 witness: 25 images on the 5 x 5 grid, two sets, saved as 4 pages.
C2_Witness ==
    /\ pc = "done"
    /\ Len(images) = 25
    /\ cfg.card.columns = 5 /\ cfg.card.rows = 5
    /\ cfg.game.sets = 2
    /\ Len(doc) = 4
    /\ out.announced = 4

\* the back page mirrors the front page before it
Mirrors(front, back) ==
    /\ Len(back) = Len(front)
    /\ \A i \in 1..Len(front) :
           \E j \in 1..Len(back) :
               /\ back[j].side = "back"
               /\ back[j].idx = front[i].idx
               /\ back[j].item = front[i].item
               /\ back[j].col = cfg.card.columns - 1 - front[i].col
               /\ back[j].row = front[i].row
               /\ \A m \in 1..Len(back) : back[m].idx = front[i].idx => m = j

\* C3: a front card at page index i sits at column i mod cols, row i div
\* cols; the following back page holds exactly one back card for it, at
\* column cols - 1 - c and the same row, and as many back cards as the front
\* page holds front cards.
C3_BackMirrors ==
    InPdf =>
        \A k \in 1..Len(AllPages) :
            IsFront(AllPages[k]) =>
                /\ \A i \in 1..Len(AllPages[k]) :
                       /\ AllPages[k][i].idx = i - 1
                       /\ AllPages[k][i].col = (i - 1) % cfg.card.columns
                       /\ AllPages[k][i].row = (i - 1) \div cfg.card.columns
                /\ k < Len(AllPages) => Mirrors(AllPages[k], AllPages[k + 1])
                /\ pc \in {"save", "done"} => k < Len(AllPages)

\* C3 witness: on a three-column grid a front card of column 0 has its back
\* in column 2 of the next page, and the middle column maps to itself.
C3_Witness ==
    /\ pc = "done"
    /\ cfg.card.columns = 3
    /\ Len(doc[1]) >= 2
    /\ doc[1][1].side = "front" /\ doc[1][1].col = 0
    /\ doc[2][1].side = "back" /\ doc[2][1].col = 2 /\ doc[2][1].item = doc[1][1].item
    /\ doc[2][2].col = 1

\* the items drawn as fronts of set s, in drawing order
FrontItems(s) ==
    ItemsOf(SelectSeq(AllCards, LAMBDA card : card.side = "front" /\ card.set = s))

\* C4: the ordered list is cut into consecutive batches of cols * rows items,
\* every batch but possibly the last full and none empty; no page, front or
\* back, is emitted without a card; a front page draws its batch in order;
\* in the finished document every set draws every item as a front exactly
\* once, in list order.
C4_Partition ==
    InPdf =>
        /\ Flatten(pages) = images
        /\ \A b \in 1..Len(pages) :
               /\ Len(pages[b]) >= 1
               /\ Len(pages[b]) <= cfg.card.columns * cfg.card.rows
               /\ b < Len(pages) => Len(pages[b]) = cfg.card.columns * cfg.card.rows
        /\ \A k \in 1..Len(doc) : doc[k] # <<>>
        /\ \A k \in 1..Len(AllPages) :
               IsFront(AllPages[k]) => ItemsOf(AllPages[k]) = pages[AllPages[k][1].batch]
        /\ pc = "done" => \A s \in 0..(cfg.game.sets - 1) : FrontItems(s) = images

\* C4 witness: a finished document of two sets whose last batch is short.
C4_Witness ==
    /\ pc = "done"
    /\ cfg.game.sets = 2
    /\ Len(pages) >= 2
    /\ Len(pages[Len(pages)]) < cfg.card.columns * cfg.card.rows
    /\ Len(pages[1]) = cfg.card.columns * cfg.card.rows
    /\ Len(doc[Len(doc)]) = Len(pages[Len(pages)])

-----------------------------------------------------------------------------
(* Claims about failures. *)

FrontCards == SelectSeq(AllCards, LAMBDA card : card.side = "front")
BackCards == SelectSeq(AllCards, LAMBDA card : card.side = "back")
Unreadable(card) == card.item.path \in env.corrupt

\* the card was drawn as the placeholder and completed: grey rectangle over
\* the card, "Image Error", no image, then label, border and crop marks
PlaceholderCard(card) ==
    /\ card.drawn.warnings = <<card.item.path>>
    /\ OpsNamed(card.drawn.ops, "drawImage") = <<>>
    /\ \E i \in 2..Len(card.drawn.ops) :
           /\ card.drawn.ops[i - 1] = SetColor("setFillColor", "grey30")
           /\ card.drawn.ops[i] = Rect(card.x, card.y, card_w(cfg), card_h(cfg), 1, 0)
    /\ \E i \in 1..Len(card.drawn.ops) :
           /\ card.drawn.ops[i].op = "drawCentredString"
           /\ card.drawn.ops[i].text = ImageErrorText
    /\ OpsNamed(card.drawn.ops, "drawText") # <<>>
    /\ LabelOf(card.drawn.ops) # ImageErrorText
    /\ Prefix(LabelOf(card.drawn.ops), card.item.name)
    /\ Len(StrokedRects(card.drawn.ops)) = 1
    /\ cfg.crop_marks.enabled => Len(OpsNamed(card.drawn.ops, "line")) = 8

\* C5: a card whose image does not load or decode is drawn as a placeholder
\* with a warning, and still gets its label, border and crop marks; the
\* other cards are drawn with their images and without warnings; every card
\* of every page and set is rendered and the document is saved.
C5_ImageErrorIsolated ==
    InPdf =>
        /\ \A i \in 1..Len(FrontCards) :
               IF Unreadable(FrontCards[i])
               THEN PlaceholderCard(FrontCards[i])
               ELSE /\ FrontCards[i].drawn.warnings = <<>>
                    /\ Len(OpsNamed(FrontCards[i].drawn.ops, "drawImage")) = 1
        /\ out.warnings =
               Flatten([i \in 1..Len(FrontCards) |-> FrontCards[i].drawn.warnings])
        /\ pc = "done" =>
               /\ out.saved /\ out.exit = 0
               /\ \A s \in 0..(cfg.game.sets - 1) : FrontItems(s) = images
               /\ Len(BackCards) = Len(FrontCards)

\* C5 witness: a saved document of two sets and several cards, one of them
\* unreadable, drawn as a placeholder and followed by a readable card.
C5_Witness ==
    /\ pc = "done" /\ out.saved
    /\ cfg.game.sets = 2
    /\ Len(out.warnings) = 2
    /\ \E i \in 1..(Len(FrontCards) - 1) :
           /\ Unreadable(FrontCards[i])
           /\ ~Unreadable(FrontCards[i + 1])
           /\ FrontCards[i].drawn.warnings # <<>>

\* a fatal input: a named config file that does not exist, an image_dir that
\* is not a directory, or a directory without a matching file
FatalInput ==
    /\ env.mode = "run"
    /\ \/ env.config = "missing"
       \/ env.dir # "dir"
       \/ \A i \in 1..Len(env.listing) : ~env.listing[i].image

\* C6: on a fatal input the run ends with exit code 1 before generate_pdf is
\* entered: no card rendered, no page emitted, nothing announced or saved.
C6_FatalInput ==
    FatalInput =>
        /\ pc \in {"main", "collect", "exit"}
        /\ pc = "exit" => out.exit = 1
        /\ pc = "collect" => env.config # "missing"
        /\ out.exit \in {-1, 1}
        /\ doc = <<>> /\ cur = <<>> /\ pages = <<>>
        /\ out.announced = -1
        /\ ~out.saved

\* C6 witness: a directory holding only a non-image entry ended the run in
\* collect_images with exit code 1.
C6_Witness ==
    /\ pc = "exit" /\ out.exit = 1
    /\ env.mode = "run" /\ env.config # "missing" /\ env.dir = "dir"
    /\ env.listing # <<>>
    /\ \A i \in 1..Len(env.listing) : ~env.listing[i].image

-----------------------------------------------------------------------------
(* Claims about the cells of a page. *)

\* the cards of page p sit in cells of the grid, no two in one cell
DistinctCells(p) ==
    /\ \A i \in 1..Len(p) :
           /\ 0 <= p[i].col /\ p[i].col < cfg.card.columns
           /\ 0 <= p[i].row /\ p[i].row < cfg.card.rows
    /\ \A i \in 1..Len(p) : \A j \in 1..Len(p) :
           (p[i].col = p[j].col /\ p[i].row = p[j].row) => i = j

\* C12: on every front page and every back page each card is in a cell with
\* 0 <= column < cols and 0 <= row < rows, and no two cards of a page share
\* a cell.
C12_DistinctCells ==
    InPdf => \A k \in 1..Len(AllPages) : DistinctCells(AllPages[k])

\* C12 witness: a finished document on a grid of several columns and rows
\* whose first front page is full, its last card in the last cell, followed
\* by a full back page.
C12_Witness ==
    /\ pc = "done"
    /\ cfg.card.columns >= 2 /\ cfg.card.rows >= 2
    /\ Len(doc[1]) = cfg.card.columns * cfg.card.rows
    /\ doc[1][Len(doc[1])].side = "front"
    /\ doc[1][Len(doc[1])].col = cfg.card.columns - 1
    /\ doc[1][Len(doc[1])].row = cfg.card.rows - 1
    /\ Len(doc[2]) = Len(doc[1])
    /\ doc[2][Len(doc[2])].side = "back"
    /\ doc[2][Len(doc[2])].col = 0

-----------------------------------------------------------------------------
(* Claims about the max_cards cut. *)

\* main() is past the cut
PastCut == pc \in {"generate", "front", "back", "save", "done"}

\* what the directory scan yielded
Scanned == collect_images(env.dir, env.listing).images

\* the list passed to generate_pdf is the first max_cards items of the scan,
\* or all of them when there are no more than max_cards; no set draws more
\* than max_cards fronts, and only items of the passed list, in order
Capped ==
    /\ Prefix(images, Scanned)
    /\ Len(Scanned) > cfg.game.max_cards => Len(images) = cfg.game.max_cards
    /\ Len(Scanned) <= cfg.game.max_cards => images = Scanned
    /\ \A s \in 0..(cfg.game.sets - 1) :
           /\ Len(FrontItems(s)) <= cfg.game.max_cards
           /\ Prefix(FrontItems(s), images)
    /\ \A i \in 1..Len(AllCards) :
           \E j \in 1..Len(images) : AllCards[i].item = images[j]

\* C13 (as stated): a run never renders more than game.max_cards items per
\* set: more than max_cards scanned images are cut to the first max_cards,
\* max_cards or fewer are passed on unchanged.
C13_MaxCards ==
    PastCut => Capped

\* C13 (amended): the same for a max_cards >= 0; a negative max_cards is a
\* slice end counted from the end of the list, and len(images) + max_cards
\* items are passed on and drawn.
C13_MaxCardsNonNegative ==
    PastCut =>
        /\ cfg.game.max_cards >= 0 => Capped
        /\ cfg.game.max_cards < 0 =>
               /\ Prefix(images, Scanned)
               /\ Len(images) = slice_stop(Len(Scanned), cfg.game.max_cards)

\* C13 witness: a saved document for a directory of more images than
\* max_cards >= 2: each set drew exactly the first max_cards of them.
C13_Witness ==
    /\ pc = "done"
    /\ cfg.game.max_cards >= 2
    /\ Len(Scanned) > cfg.game.max_cards
    /\ images = SubSeq(Scanned, 1, cfg.game.max_cards)
    /\ \A s \in 0..(cfg.game.sets - 1) : FrontItems(s) = images
    /\ cfg.game.sets = 2

-----------------------------------------------------------------------------
(* SpecMerge: deep_merge on bounded mappings. *)

\* a mapping as a value: keys to scalars Val(v) or to mappings Map(m)
Map(m) == [t |-> "map", m |-> m]
Keys == {KeyOrder[i] : i \in 1..Len(KeyOrder)}
\* the scalars of base, and the scalar of override (one of them)
BaseLeaves == {Val(v) : v \in 1..MaxVal}
OverrideLeaves == {Val(MaxVal)}
MapsOver(T) == UNION {[ks -> T] : ks \in SUBSET Keys}
Level1(leaves) == leaves \cup {Map(m) : m \in MapsOver(leaves)}
Level2(leaves) == MapsOver(Level1(leaves))
\* mappings three deep under "card": a section holding a section
Level3(leaves) == {("card" :> Map(m)) : m \in {n \in Level2(leaves) : "card" \in DOMAIN n}}

RECURSIVE Alloc(_, _)
RECURSIVE AllocItems(_, _, _, _)

\* the dict at address a filled with the items of mapping m from key ks on
AllocItems(h, a, m, ks) ==
    IF ks = <<>> THEN [heap |-> h, ref |-> a]
    ELSE IF m[Head(ks)].t = "map"
    THEN AllocItems([Alloc(h, m[Head(ks)].m).heap
                        EXCEPT ![a] = SetItem(@, Head(ks), Ref(Alloc(h, m[Head(ks)].m).ref))],
                    a, m, Tail(ks))
    ELSE AllocItems([h EXCEPT ![a] = SetItem(@, Head(ks), m[Head(ks)])], a, m, Tail(ks))

\* the mapping m built as Python objects (a dict literal, yaml.safe_load)
Alloc(h, m) == AllocItems(Append(h, EmptyDict), Len(h) + 1, m, KeysOf(m))

\* the mapping held at address a
RECURSIVE Deref(_, _)
Deref(h, a) ==
    [k \in DOMAIN h[a] |-> IF h[a][k].t = "ref" THEN Map(Deref(h, h[a][k].a)) ELSE h[a][k]]

\* deep_merge(base, override) on two separate objects
MergeCall(b, o) ==
    [fn |-> "deep_merge", heap |-> Alloc(Alloc(<<>>, b).heap, o).heap,
     base |-> Alloc(<<>>, b).ref, override |-> Alloc(Alloc(<<>>, b).heap, o).ref]

\* deep_merge(d, d)
SelfMergeCall(b) ==
    [fn |-> "deep_merge", heap |-> Alloc(<<>>, b).heap,
     base |-> Alloc(<<>>, b).ref, override |-> Alloc(<<>>, b).ref]

InitMerge ==
    /\ IdleMain
    /\ ret = <<>>
    /\ call \in {MergeCall(b, o) : b \in Level2(BaseLeaves), o \in Level2(OverrideLeaves)}
                \cup {MergeCall(b, o) : b \in Level3(BaseLeaves), o \in Level3(OverrideLeaves)}
                \cup {SelfMergeCall(b) : b \in Level2(BaseLeaves)}

CallDeepMerge ==
    /\ call.fn = "deep_merge"
    /\ ret = <<>>
    /\ ret' = <<deep_merge_heap(call.heap, call.base, call.override)>>
    /\ UNCHANGED <<mainVars, call>>

NextMerge == CallDeepMerge

SpecMerge == InitMerge /\ [][NextMerge]_vars

MergeDone == call.fn = "deep_merge" /\ ret # <<>>

\* the rule of the claim on mappings as values
RECURSIVE MergeRule(_, _)
MergeRule(b, o) ==
    [k \in DOMAIN b \cup DOMAIN o |->
        IF k \notin DOMAIN o THEN b[k]
        ELSE IF k \in DOMAIN b /\ b[k].t = "map" /\ o[k].t = "map"
        THEN Map(MergeRule(b[k].m, o[k].m))
        ELSE o[k]]

\* a mapping shaped like a configuration: sections of scalars
ConfigShaped(m) ==
    \A k \in DOMAIN m : m[k].t = "map" /\ \A j \in DOMAIN m[k].m : m[k].m[j].t = "val"
Plain(m) == [k \in DOMAIN m |-> [j \in DOMAIN m[k].m |-> m[k].m[j].v]]

\* C11: deep_merge returns a new mapping in which each key of override has
\* override's value, two mappings under one key merged by the same rule, and
\* each key only in base has base's value; no dict that existed before the
\* call (base, override, their nested mappings) is changed; merging override
\* again into the result gives the same mapping.  On sections of scalars
\* the result is the one load_config's merge is modelled by.
C11_DeepMerge ==
    MergeDone =>
        /\ ret[1].ref > Len(call.heap)
        /\ Deref(ret[1].heap, ret[1].ref)
               = MergeRule(Deref(call.heap, call.base), Deref(call.heap, call.override))
        /\ \A a \in 1..Len(call.heap) : ret[1].heap[a] = call.heap[a]
        /\ Deref(ret[1].heap, call.base) = Deref(call.heap, call.base)
        /\ Deref(ret[1].heap, call.override) = Deref(call.heap, call.override)
        /\ Deref(deep_merge_heap(ret[1].heap, ret[1].ref, call.override).heap,
                 deep_merge_heap(ret[1].heap, ret[1].ref, call.override).ref)
               = Deref(ret[1].heap, ret[1].ref)
        /\ (ConfigShaped(Deref(call.heap, call.base))
              /\ ConfigShaped(Deref(call.heap, call.override)))
               => Plain(Deref(ret[1].heap, ret[1].ref))
                      = deep_merge(Plain(Deref(call.heap, call.base)),
                                   Plain(Deref(call.heap, call.override)))

\* C11 witness: base and override both hold a section under "card", itself
\* holding a section under "card"; base's section alone holds "game"; the
\* merge returned a mapping equal to neither argument.
C11_Witness ==
    /\ MergeDone
    /\ call.base # call.override
    /\ DOMAIN call.heap[call.base] = {"card"}
    /\ DOMAIN call.heap[call.override] = {"card"}
    /\ call.heap[call.base]["card"].t = "ref"
    /\ call.heap[call.override]["card"].t = "ref"
    /\ "game" \in DOMAIN call.heap[call.heap[call.base]["card"].a]
    /\ "game" \notin DOMAIN call.heap[call.heap[call.override]["card"].a]
    /\ "card" \in DOMAIN call.heap[call.heap[call.base]["card"].a]
    /\ "card" \in DOMAIN call.heap[call.heap[call.override]["card"].a]
    /\ call.heap[call.heap[call.base]["card"].a]["card"].t = "ref"
    /\ call.heap[call.heap[call.override]["card"].a]["card"].t = "ref"
    /\ Deref(ret[1].heap, ret[1].ref) # Deref(call.heap, call.base)
    /\ Deref(ret[1].heap, ret[1].ref) # Deref(call.heap, call.override)

=============================================================================
